---- MODULE Spec2Model ----
(***************************************************************************)
(* Client-side session layer of the word game front end.                   *)
(*                                                                         *)
(*   t : the WebSocketService singleton (src/services/websocket.ts)        *)
(*       together with the browser objects it drives: its sockets, its     *)
(*       timers and the frames it has put on the wire.                     *)
(*   g : the game page (src/app/game/[gameId]/page.tsx): its GameState,    *)
(*       the staged-update store in gameStateCache, its flush timers and   *)
(*       the item it keeps in sessionStorage.                              *)
(*                                                                         *)
(* Every method of the service is an operator from one value of t to the   *)
(* next, so that a method calling another method is the composition of the *)
(* two operators, in the order of the source.  The fields last, arg, code, *)
(* created, cb, exhausted, scheduled and sent of t describe the step that  *)
(* produced the state (which operation ran, what it did, the frames it put *)
(* on the wire, in order); the operations write them and never read them.  *)
(*                                                                         *)
(* A message is named by its rank in call order among the messages that    *)
(* are not transmitted yet: the first send() into an empty queue is 1.     *)
(***************************************************************************)
EXTENDS Naturals, Integers, Sequences, FiniteSets, TLC

VARIABLES t, g

vars == <<t, g>>

(***************************************************************************)
(* Bounds of the model.                                                    *)
(***************************************************************************)
MaxOrphans == 1      \* live sockets the service no longer refers to
MaxLostTimers == 1   \* pending backoff timers whose handle was overwritten
MaxQueue == 1        \* throttled connect() calls waiting in connectionQueue
MaxMsgs == 3         \* messages waiting in pendingMessages
MaxPending == 2      \* updates waiting in pendingUpdates, and flush timers
MaxVersion == 3      \* version of the store's snapshot
MaxRenders == 2      \* renders whose effects have not run yet

(***************************************************************************)
(* Program constants.                                                      *)
(***************************************************************************)
maxReconnectAttempts == 5
NormalClosure == 1000
AbnormalClosure == 1006

Users == {"u1", "u2"}
NoUser == "none"
CloseCodes == {NormalClosure, AbnormalClosure}

(***************************************************************************)
(* The step description is reset at the start of every operation.          *)
(***************************************************************************)
Begin(s, name, arg) ==
    [s EXCEPT !.last = name, !.arg = arg, !.code = 0, !.created = 0, !.cb = {},
              !.exhausted = FALSE, !.scheduled = FALSE, !.sent = <<>>,
              !.frame = <<>>, !.priority = "", !.delivered = <<>>,
              !.cancelled = FALSE, !.returned = FALSE, !.backoff = 0]

(***************************************************************************)
(* WebSocketService                                                        *)
(***************************************************************************)
clearKeepAlive(s) == [s EXCEPT !.keepAliveInterval = FALSE]

setupKeepAlive(s) == [clearKeepAlive(s) EXCEPT !.keepAliveInterval = TRUE]

\* cleanup: cancels the backoff timer this.reconnectTimeout refers to and
\* the keep-alive, detaches the handlers of this.ws, closes it and drops it.
\* Sockets and timers the service no longer refers to are not touched.
cleanup(s) ==
    LET s1 == IF s.reconnectTimeout # "null"
              THEN [s EXCEPT !.reconnectTimeout = "null"] ELSE s
        s2 == clearKeepAlive(s1)
    IN  IF s2.ws # "null" THEN [s2 EXCEPT !.ws = "null"] ELSE s2

\* One millisecond, in the unit delays are kept in: 1000 * 1.5^k is a
\* whole number of 1/64 ms for every k where it is below the cap.
Unit == 64

maxBackoff == 15000

Min(a, b) == IF a <= b THEN a ELSE b

\* Math.min(1000 * Math.pow(1.5, k), 15000).  The power is taken one factor
\* at a time and cut at the cap after each, which gives the same minimum
\* and keeps the numbers small.
RECURSIVE cappedPow(_)
cappedPow(k) ==
    IF k = 0 THEN Min(1000 * Unit, maxBackoff * Unit)
    ELSE Min((cappedPow(k - 1) * 3) \div 2, maxBackoff * Unit)

\* the same with factor 2 in place of 1.5
RECURSIVE cappedPowDoubling(_)
cappedPowDoubling(k) ==
    IF k = 0 THEN Min(1000 * Unit, maxBackoff * Unit)
    ELSE Min(cappedPowDoubling(k - 1) * 2, maxBackoff * Unit)

backoffTimeDoubling(n) ==
    IF n <= 2 THEN 500 * n * Unit ELSE cappedPowDoubling(n - 2)

\* backoffTime of handleReconnect for attempt n
backoffTime(n) ==
    IF n <= 2 THEN 500 * n * Unit ELSE cappedPow(n - 2)

\* handleReconnect without the check of maxReconnectAttempts
handleReconnectUnlimited(s) ==
    IF s.connectionState = "RECONNECTING" THEN s
    ELSE [s EXCEPT !.connectionState = "RECONNECTING",
                   !.reconnectAttempts = IF @ < maxReconnectAttempts THEN @ + 1 ELSE @,
                   !.lostTimers = IF s.reconnectTimeout = "pending" THEN @ + 1 ELSE @,
                   !.reconnectTimeout = "pending",
                   !.scheduled = TRUE]

\* handleReconnect: one more backoff timer, unless already RECONNECTING or
\* the attempts are used up.  The previous handle is overwritten, not cleared.
handleReconnect(s) ==
    IF s.connectionState = "RECONNECTING" THEN s
    ELSE IF s.reconnectAttempts >= maxReconnectAttempts
         THEN [s EXCEPT !.exhausted = TRUE]
    ELSE [s EXCEPT !.connectionState = "RECONNECTING",
                   !.reconnectAttempts = @ + 1,
                   !.lostTimers = IF s.reconnectTimeout = "pending" THEN @ + 1 ELSE @,
                   !.reconnectTimeout = "pending",
                   !.scheduled = TRUE,
                   !.backoff = backoffTime(s.reconnectAttempts + 1)]

\* establishConnection: createWebSocket throws without a user id, and the
\* catch calls handleReconnect.  Otherwise this.ws is overwritten by a new
\* connecting socket; the socket it referred to keeps its handlers.  The
\* 5 s connection timeout is cleared in the same call that sets it.
establishConnection(s) ==
    IF s.userId = NoUser THEN handleReconnect(s)
    ELSE [s EXCEPT !.orphanConnecting = IF s.ws = "CONNECTING" THEN @ + 1 ELSE @,
                   !.orphanOpen = IF s.ws = "OPEN" THEN @ + 1 ELSE @,
                   !.ws = "CONNECTING",
                   !.created = @ + 1]

\* send(type, payload) for the message numbered m.
send(s, m) ==
    IF s.userId = NoUser THEN [s EXCEPT !.returned = FALSE]
    ELSE IF s.connectionState # "CONNECTED" \/ s.ws # "OPEN"
         THEN LET s1 == [s EXCEPT !.pendingMessages = Append(@, m),
                                  !.returned = FALSE]
              IN  IF s1.connectionState = "DISCONNECTED"
                  THEN establishConnection([s1 EXCEPT !.reconnectAttempts = 0])
                  ELSE s1
    ELSE [s EXCEPT !.sent = Append(@, m), !.returned = TRUE]

RECURSIVE sendEach(_, _)
sendEach(s, msgs) ==
    IF msgs = <<>> THEN s ELSE sendEach(send(s, Head(msgs)), Tail(msgs))

RECURSIVE Reverse(_)
Reverse(q) == IF q = <<>> THEN <<>> ELSE Append(Reverse(Tail(q)), Head(q))

\* processPendingMessages draining the queue from its end
processPendingMessagesLifo(s) ==
    IF Len(s.pendingMessages) > 0
    THEN sendEach([s EXCEPT !.pendingMessages = <<>>], Reverse(s.pendingMessages))
    ELSE s

processPendingMessages(s) ==
    IF Len(s.pendingMessages) > 0
    THEN sendEach([s EXCEPT !.pendingMessages = <<>>], s.pendingMessages)
    ELSE s

processConnectionQueue(s) ==
    IF Len(s.connectionQueue) = 0 THEN [s EXCEPT !.isProcessingQueue = FALSE]
    ELSE [s EXCEPT !.isProcessingQueue = TRUE,
                   !.queueTimer = TRUE,
                   !.attemptSinceArm = FALSE]

queueConnectionAttempt(s, userId) ==
    LET s1 == [s EXCEPT !.connectionQueue = Append(@, userId)]
    IN  IF ~s1.isProcessingQueue THEN processConnectionQueue(s1) ELSE s1

\* connect without the early return of lines 50-53
connectAlways(s, userId) ==
    IF s.throttled THEN queueConnectionAttempt(s, userId)
    ELSE LET s1 == cleanup([s EXCEPT !.throttled = TRUE, !.attemptSinceArm = TRUE])
         IN  establishConnection([s1 EXCEPT !.userId = userId,
                                            !.connectionState = "CONNECTING"])

\* connect dropping a call that arrives inside the throttle window
connectDropping(s, userId) ==
    IF s.ws = "OPEN" /\ s.userId = userId THEN s
    ELSE IF s.throttled THEN s
    ELSE LET s1 == cleanup([s EXCEPT !.throttled = TRUE, !.attemptSinceArm = TRUE])
         IN  establishConnection([s1 EXCEPT !.userId = userId,
                                            !.connectionState = "CONNECTING"])

connect(s, userId) ==
    IF s.ws = "OPEN" /\ s.userId = userId THEN s
    ELSE IF s.throttled THEN queueConnectionAttempt(s, userId)
    ELSE LET s1 == cleanup([s EXCEPT !.throttled = TRUE, !.attemptSinceArm = TRUE])
         IN  establishConnection([s1 EXCEPT !.userId = userId,
                                            !.connectionState = "CONNECTING"])

disconnect(s) ==
    [cleanup([s EXCEPT !.listening = FALSE])
        EXCEPT !.userId = NoUser,
               !.connectionState = "DISCONNECTED",
               !.pendingMessages = <<>>]

handleNetworkChange(s, onLine) ==
    IF onLine /\ s.connectionState # "CONNECTED" /\ s.userId # NoUser
    THEN establishConnection([s EXCEPT !.reconnectAttempts = 0])
    ELSE s

onopen(s) ==
    LET s1 == [s EXCEPT !.connectionState = "CONNECTED",
                        !.reconnectAttempts = 0,
                        !.cb = @ \cup {"onConnect"}]
    IN  processPendingMessages(setupKeepAlive(s1))

\* onclose reconnecting whatever the close code
oncloseAnyCode(s, code) ==
    LET s1 == clearKeepAlive([s EXCEPT !.connectionState = "DISCONNECTED"])
        s2 == [s1 EXCEPT !.cb = @ \cup {"onDisconnect"}]
    IN  handleReconnect(s2)

onclose(s, code) ==
    LET s1 == clearKeepAlive([s EXCEPT !.connectionState = "DISCONNECTED"])
        s2 == [s1 EXCEPT !.cb = @ \cup {"onDisconnect"}]
    IN  IF code # NormalClosure THEN handleReconnect(s2) ELSE s2

onerror(s) == [s EXCEPT !.cb = @ \cup {"onError"}]

(***************************************************************************)
(* WebSocketService: inbound messages (lines 170-310).  A message is a     *)
(* record with a type; its fields are at the top level or in payload.      *)
(***************************************************************************)
WireTypes == {"GAME_JOINED", "PONG", "GAME_STATE", "GAME_STARTED"}

Has(m, f) == f \in DOMAIN m

\* message.payload || message
PayloadOf(message) == IF Has(message, "payload") THEN message.payload ELSE message

highPriorityTypes ==
    {"GAME_STARTED", "GAME_ENDED", "WORD_SUBMISSION_RESULT", "OPPONENT_SCORED",
     "OPPONENT_DISCONNECTED", "OPPONENT_RECONNECTED", "OPPONENT_JOINED"}

arrayFields == {"foundWords", "opponentWords"}

\* this.lastMessagesByType[type], undefined for a payload without a type
getLastMessageOfType(s, payload) ==
    IF Has(payload, "type") THEN s.lastMessagesByType[payload.type] ELSE <<>>

hasNewArrayContent(s, payload) ==
    LET lastMessage == getLastMessageOfType(s, payload)
    IN  IF lastMessage = <<>> THEN TRUE
        ELSE \E field \in arrayFields :
                /\ Has(payload, field)
                /\ Has(lastMessage[1], field)
                /\ Len(payload[field]) > Len(lastMessage[1][field])

isHighPriorityMessage(s, message) ==
    LET payload == PayloadOf(message)
        messageType == message.type
    IN  \/ messageType \in highPriorityTypes
        \/ Has(payload, "letters") /\ payload.letters # <<>>
        \/ Has(payload, "score") \/ Has(payload, "opponentScore")
        \/ /\ \E field \in arrayFields : Has(payload, field)
           /\ hasNewArrayContent(s, payload)
        \/ Has(payload, "gameStatus") /\ payload.gameStatus # ""

trackMessage(s, message) ==
    [s EXCEPT !.lastMessagesByType[message.type] = <<message>>]

\* processMessage leaving the pending delivery of a high-priority message's
\* type in place
processMessageKeepTimer(s, message) ==
    LET messageType == message.type
    IN  IF isHighPriorityMessage(s, message)
        THEN [s EXCEPT !.priority = "high",
                       !.delivered = Append(@, message)]
        ELSE [s EXCEPT !.priority = "normal",
                       !.cancelled = s.messageDebounceTimers[messageType] # <<>>,
                       !.messageDebounceTimers[messageType] = <<message>>]

\* processMessage with one debounce timer for all types
processMessageOneTimer(s, message) ==
    LET messageType == message.type
    IN  IF isHighPriorityMessage(s, message)
        THEN [s EXCEPT !.priority = "high",
                       !.cancelled = s.messageDebounceTimers[messageType] # <<>>,
                       !.messageDebounceTimers[messageType] = <<>>,
                       !.delivered = Append(@, message)]
        ELSE [s EXCEPT !.priority = "normal",
                       !.cancelled = s.messageDebounceTimers[messageType] # <<>>,
                       !.messageDebounceTimers =
                            [k \in WireTypes |-> IF k = messageType
                                                 THEN <<message>> ELSE <<>>]]

processMessage(s, message) ==
    LET messageType == message.type
    IN  IF isHighPriorityMessage(s, message)
        THEN [s EXCEPT !.priority = "high",
                       !.cancelled = s.messageDebounceTimers[messageType] # <<>>,
                       !.messageDebounceTimers[messageType] = <<>>,
                       !.delivered = Append(@, message)]
        ELSE [s EXCEPT !.priority = "normal",
                       !.cancelled = s.messageDebounceTimers[messageType] # <<>>,
                       !.messageDebounceTimers[messageType] = <<message>>]

\* ws.onmessage for a frame that JSON.parse accepts
onmessage(s, message) ==
    processMessage(trackMessage([s EXCEPT !.frame = <<message>>], message), message)

\* ws.onmessage for a frame that JSON.parse rejects
onmessageUnparseable(s) == [s EXCEPT !.cb = @ \cup {"onError"}]

\* the callback of the debounce timer of messageType
debouncedDelivery(s, messageType) ==
    [s EXCEPT !.delivered = Append(@, s.messageDebounceTimers[messageType][1]),
              !.messageDebounceTimers[messageType] = <<>>]

(***************************************************************************)
(* GamePage: the staged-update store                                       *)
(***************************************************************************)
\* the GameState of the first render
InitialGameState ==
    [letters |-> <<>>, currentWord |-> <<>>, foundWords |-> <<>>,
     opponentWords |-> <<>>, score |-> 0, opponentScore |-> 0, gameStatus |-> "PENDING",
     winner |-> "null", opponentName |-> "Opponent", opponentConnected |-> FALSE]

\* The service handlers are registered by an effect whose dependencies are
\* [router, gameId]: the handleGameMessage they call is the one of the first
\* render, and the gameState it reads is the state of that render.
RegisteredGameState == InitialGameState

\* { ...prev, ...update }
Spread(prev, update) ==
    [f \in DOMAIN prev \cup DOMAIN update |->
        IF f \in DOMAIN update THEN update[f] ELSE prev[f]]

RECURSIVE SpreadAll(_)
SpreadAll(updates) ==
    IF updates = <<>> THEN <<>>
    ELSE Spread(SpreadAll(SubSeq(updates, 1, Len(updates) - 1)),
                updates[Len(updates)])

\* setGameState(prev => ...) with the snapshot and the version bump of the
\* updater; newState is the value the updater returns
safeUpdateGameState(s, newState) ==
    [s EXCEPT !.gameState = newState, !.snapshot = <<newState>>,
              !.version = @ + 1]

\* applyPendingUpdates merging the updates in the reverse order
applyPendingUpdatesReversed(s) ==
    IF Len(s.pendingUpdates) = 0 THEN s
    ELSE LET combinedUpdate == SpreadAll(Reverse(s.pendingUpdates))
         IN  [safeUpdateGameState(s, Spread(s.gameState, combinedUpdate))
                 EXCEPT !.pendingUpdates = <<>>, !.highSince = <<>>]

applyPendingUpdates(s) ==
    IF Len(s.pendingUpdates) = 0 THEN s
    ELSE LET combinedUpdate == SpreadAll(s.pendingUpdates)
         IN  [safeUpdateGameState(s, Spread(s.gameState, combinedUpdate))
                EXCEPT !.pendingUpdates = <<>>, !.highSince = <<>>]

\* highSince[i] is the set of fields that high-priority updates have set
\* since pendingUpdates[i] was staged (written here, read by no operation)
stageUpdate(s, update, priority) ==
    IF priority = "high"
    THEN [safeUpdateGameState(s, Spread(s.gameState, update))
            EXCEPT !.highSince = [i \in DOMAIN @ |-> @[i] \cup DOMAIN update]]
    ELSE [s EXCEPT !.pendingUpdates = Append(@, update),
                   !.highSince = Append(@, {}),
                   !.flushTimers = IF priority = "normal" THEN @ + 1 ELSE @]

\* A message is a record of the fields its JSON carries.  Of GameState and
\* of the messages, timeRemaining, possibleWords, lastOpponentWord and gameId
\* are left out.  A word is the sequence of its letters.
Defined(data, f) == f \in DOMAIN data

\* the value of each field that counts as false in a condition
Falsy ==
    [letters |-> <<>>, opponentName |-> "", gameStatus |-> "", winner |-> "",
     opponentConnected |-> FALSE, score |-> 0, opponentScore |-> 0,
     success |-> FALSE, word |-> <<>>]

\* data.f as a condition
Truthy(data, f) ==
    /\ f \in DOMAIN data
    /\ data[f] # Falsy[f]

getMessagePriority(type) ==
    CASE type \in {"GAME_STARTED", "GAME_ENDED"} -> 10
      [] type \in {"OPPONENT_SCORED", "WORD_SUBMISSION_RESULT"} -> 8
      [] type \in {"OPPONENT_JOINED", "OPPONENT_DISCONNECTED",
                   "OPPONENT_RECONNECTED"} -> 7
      [] type = "GAME_STATE" -> 6
      [] type = "GAME_UPDATE" -> 5
      [] OTHER -> 1

cachePriority(type) ==
    IF getMessagePriority(type) >= 7 THEN "high"
    ELSE IF getMessagePriority(type) >= 5 THEN "normal" ELSE "low"

\* one field of an update, when the condition holds
Field(cond, f, v) == IF cond THEN [x \in {f} |-> v] ELSE <<>>

createFullGameStateUpdate(data) ==
    SpreadAll(<<
        Field(Truthy(data, "letters"), "letters", data.letters),
        Field(Truthy(data, "letters"), "gameStatus", "ACTIVE"),
        Field(Defined(data, "score"), "score", data.score),
        Field(Defined(data, "opponentScore"), "opponentScore", data.opponentScore),
        Field(Defined(data, "foundWords"), "foundWords", data.foundWords),
        Field(Defined(data, "opponentWords"), "opponentWords", data.opponentWords),
        Field(Defined(data, "opponentConnected"), "opponentConnected",
              data.opponentConnected),
        Field(Truthy(data, "opponentName"), "opponentName", data.opponentName),
        Field(Truthy(data, "gameStatus"), "gameStatus", data.gameStatus),
        Field(Defined(data, "winner"), "winner", data.winner) >>)

\* data.f || other
OrElse(data, f, other) == IF Truthy(data, f) THEN data[f] ELSE other

\* data.f !== undefined ? data.f : other
IfDefined(data, f, other) == IF Defined(data, f) THEN data[f] ELSE other

PlaceholderLetters == <<"A", "B", "C", "D", "E", "F", "G", "H">>

\* the update of that branch without the gameStatus
activeStateUpdateKeepStatus(data) ==
    SpreadAll(<<
        [opponentConnected |-> TRUE,
         opponentName |-> OrElse(data, "opponentName",
                                 RegisteredGameState.opponentName)],
        Field(Truthy(data, "letters"), "letters", data.letters),
        Field(~Truthy(data, "letters") /\ Len(RegisteredGameState.letters) = 0,
              "letters", PlaceholderLetters) >>)

\* the update of the branch "opponent has joined" (lines 930-977)
activeStateUpdate(data) ==
    SpreadAll(<<
        [gameStatus |-> "ACTIVE", opponentConnected |-> TRUE,
         opponentName |-> OrElse(data, "opponentName",
                                 RegisteredGameState.opponentName)],
        Field(Truthy(data, "letters"), "letters", data.letters),
        Field(~Truthy(data, "letters") /\ Len(RegisteredGameState.letters) = 0,
              "letters", PlaceholderLetters) >>)

\* words.includes(word)
Includes(words, word) == \E i \in 1..Len(words) : words[i] = word

\* the full-state update of a GAME_STATE message (lines 1069-1081, 1103-1115)
gameStateUpdate(data, gameStatus, opponentConnected) ==
    [gameStatus |-> gameStatus,
     opponentConnected |-> opponentConnected,
     opponentName |-> OrElse(data, "opponentName", RegisteredGameState.opponentName),
     letters |-> IfDefined(data, "letters", RegisteredGameState.letters),
     score |-> IfDefined(data, "score", RegisteredGameState.score),
     opponentScore |-> IfDefined(data, "opponentScore",
                                 RegisteredGameState.opponentScore),
     foundWords |-> IfDefined(data, "foundWords", RegisteredGameState.foundWords),
     opponentWords |-> IfDefined(data, "opponentWords",
                                 RegisteredGameState.opponentWords)]

\* the switch on the message type (lines 986-1241)
handleMessageType(s, data) ==
    CASE data.type = "GAME_JOINED" ->
            stageUpdate(s, [opponentName |-> OrElse(data, "opponentName", "Opponent")],
                        "normal")
      [] data.type = "OPPONENT_JOINED" ->
            stageUpdate(s, [gameStatus |-> "ACTIVE", opponentConnected |-> TRUE,
                            opponentName |-> OrElse(data, "opponentName", "Opponent")],
                        "high")
      [] data.type = "GAME_STARTED" ->
            stageUpdate(s, [letters |-> IfDefined(data, "letters", <<>>),
                            gameStatus |-> "ACTIVE"], "high")
      [] data.type = "GAME_UPDATE" ->
            stageUpdate(s, [score |-> IfDefined(data, "score",
                                                RegisteredGameState.score),
                            opponentScore |-> IfDefined(data, "opponentScore",
                                                RegisteredGameState.opponentScore)],
                        "normal")
      [] data.type = "GAME_STATE" ->
            IF Truthy(data, "opponentConnected")
            THEN stageUpdate(s, gameStateUpdate(data, "ACTIVE", TRUE),
                             IF RegisteredGameState.gameStatus = "PENDING"
                             THEN "high" ELSE "normal")
            ELSE IF Truthy(data, "gameStatus")
            THEN stageUpdate(s, gameStateUpdate(data, data.gameStatus, FALSE),
                             IF /\ data.gameStatus = "ACTIVE"
                                /\ RegisteredGameState.gameStatus = "PENDING"
                             THEN "high" ELSE "normal")
            ELSE s
      [] data.type = "WORD_SUBMISSION_RESULT" ->
            IF Truthy(data, "success")
            THEN stageUpdate(s,
                    Spread([currentWord |-> <<>>,
                            score |-> IfDefined(data, "score",
                                                RegisteredGameState.score)],
                           Field(~Includes(RegisteredGameState.foundWords, data.word),
                                 "foundWords",
                                 Append(RegisteredGameState.foundWords, data.word))),
                    "high")
            ELSE stageUpdate(s, [currentWord |-> <<>>], "high")
      [] data.type = "OPPONENT_SCORED" ->
            stageUpdate(s,
                [opponentScore |-> OrElse(data, "opponentScore",
                                          RegisteredGameState.opponentScore),
                 opponentWords |->
                    IF Includes(RegisteredGameState.opponentWords, data.word)
                    THEN RegisteredGameState.opponentWords
                    ELSE Append(RegisteredGameState.opponentWords, data.word)],
                "high")
      [] data.type = "OPPONENT_DISCONNECTED" ->
            stageUpdate(s, [opponentConnected |-> FALSE], "high")
      [] data.type = "OPPONENT_RECONNECTED" ->
            stageUpdate(s, [opponentConnected |-> TRUE], "high")
      [] data.type = "GAME_ENDED" ->
            stageUpdate(s, [gameStatus |-> "FINISHED",
                            winner |-> OrElse(data, "winner", "null")], "high")
      [] OTHER -> s

handleGameMessage(s, data) ==
    LET s1 == [s EXCEPT !.hasInitialized = TRUE]
        stateUpdate == createFullGameStateUpdate(data)
        s2 == IF DOMAIN stateUpdate # {}
              THEN stageUpdate(s1, stateUpdate, cachePriority(data.type))
              ELSE s1
    IN  IF \/ Truthy(data, "opponentConnected")
           \/ Truthy(data, "opponentName")
           \/ data.type = "OPPONENT_JOINED"
        THEN stageUpdate(s2, activeStateUpdate(data), "high")
        ELSE handleMessageType(s2, data)

(***************************************************************************)
(* GamePage: the handlers of the player's input (lines 1289-1391).  They   *)
(* are created by every render, so the gameState they read is the one on   *)
(* screen.  What handleEnter hands to wsService.send is recorded in        *)
(* submitted; its GET_GAME_STATE request 300 ms later writes nothing here. *)
(***************************************************************************)
DEBUG_MODE == TRUE

handleLetterClick(s, letter) ==
    safeUpdateGameState(s, [s.gameState EXCEPT !.currentWord = Append(@, letter)])

handleDelete(s) ==
    LET currentWord == s.gameState.currentWord
    IN  stageUpdate(s, [currentWord |-> SubSeq(currentWord, 1, Len(currentWord) - 1)],
                    "high")

\* handleEnter without the test gameState.foundWords.includes(word)
handleEnterAnyWord(s) ==
    LET gameState == s.gameState
        word == gameState.currentWord
        a == stageUpdate(s, [currentWord |-> <<>>], "high")
        b == IF DEBUG_MODE
             THEN stageUpdate(a, [score |-> gameState.score + Len(word),
                                  foundWords |-> Append(gameState.foundWords, word)],
                              "normal")
             ELSE a
    IN  IF Len(word) = 0 THEN s
        ELSE IF Len(word) < 3 THEN a
        ELSE [b EXCEPT !.submitted = word]

handleEnter(s) ==
    LET gameState == s.gameState
        word == gameState.currentWord
        a == stageUpdate(s, [currentWord |-> <<>>], "high")
        b == IF DEBUG_MODE
             THEN stageUpdate(a, [score |-> gameState.score + Len(word),
                                  foundWords |-> Append(gameState.foundWords, word)],
                              "normal")
             ELSE a
    IN  IF Len(word) = 0 THEN s
        ELSE IF Includes(gameState.foundWords, word) THEN a
        ELSE IF Len(word) < 3 THEN a
        ELSE [b EXCEPT !.submitted = word]

(***************************************************************************)
(* GamePage: the effects that write the store.  The effects of a render    *)
(* run after it, in the order of their declaration, each when one of its   *)
(* dependencies differs from the render before; events may be handled in   *)
(* between.  A render is recorded as what its effects read of it.          *)
(***************************************************************************)
RenderOf(s) == [gameState |-> s.gameState, isConnected |-> s.isConnected]

\* lines 1417-1437; requestGameStateUpdate changes with isConnected and
\* gameState.gameStatus
scoreEffectDeps(r) ==
    <<r.gameState.score, r.gameState.opponentScore, r.isConnected,
      r.gameState.gameStatus>>

scoreEffect(s, r) ==
    IF r.gameState.score > 0 \/ r.gameState.opponentScore > 0
    THEN stageUpdate(s,
            Spread(Field(r.gameState.score > 0, "score", r.gameState.score),
                   Field(r.gameState.opponentScore > 0, "opponentScore",
                         r.gameState.opponentScore)),
            "normal")
    ELSE s

\* lines 1474-1482
cacheInitEffect(s, r) ==
    IF s.snapshot = <<>> /\ s.hasInitialized
    THEN [s EXCEPT !.snapshot = <<r.gameState>>, !.version = 1]
    ELSE s

\* lines 1485-1506: the item written under the key 'gameStateCache'; age
\* indexes SnapshotAges
handleBeforeUnload(s) ==
    IF s.snapshot # <<>>
    THEN [s EXCEPT !.storage = <<[parses |-> TRUE,
                                  version |-> s.version, age |-> 1,
                                  snapshot |-> s.snapshot[1],
                                  gameId |-> s.stateGameId]>>]
    ELSE s

\* Date.now() - parsed.timestamp of line 1514, in ms, for an item the clock
\* has advanced age - 1 times for
SnapshotAges == <<10000, 30000, 31000>>

MaxCacheAge == 30000

\* lines 1509-1539, dependencies [gameId, isConnected]
\* the rehydration effect without the test of the age
rehydrationEffectAnyAge(s, r) ==
    IF s.storage = <<>> THEN s
    ELSE IF ~s.storage[1].parses THEN s
    ELSE LET parsed == s.storage[1]
         IN  [s EXCEPT !.snapshot = <<parsed.snapshot>>,
                       !.version = parsed.version,
                       !.gameState = parsed.snapshot,
                       !.stateGameId = parsed.gameId,
                       !.rehydrated = TRUE,
                       !.requested = r.isConnected]

\* The effect of the render r.  The 500 ms timer it sets is never cancelled
\* and its callback reads the isConnected of r only, so the step that sets
\* it tells whether GET_GAME_STATE will be sent.  An item JSON.parse
\* throws on (parses is false) is left to the catch, which only logs.
rehydrationEffect(s, r) ==
    IF s.storage = <<>> THEN s
    ELSE IF ~s.storage[1].parses THEN s
    ELSE LET parsed == s.storage[1]
         IN  IF SnapshotAges[parsed.age] < MaxCacheAge
             THEN [s EXCEPT !.snapshot = <<parsed.snapshot>>,
                            !.version = parsed.version,
                            !.gameState = parsed.snapshot,
                            !.stateGameId = parsed.gameId,
                            !.rehydrated = TRUE,
                            !.requested = r.isConnected]
             ELSE [s EXCEPT !.storage = <<>>]

\* the render the next one is compared with
LastRender(s) ==
    IF s.effects = <<>> THEN s.seen ELSE s.effects[Len(s.effects)]

\* the render that follows a handler, when it shows something new
Commit(s) ==
    IF RenderOf(s) # LastRender(s)
    THEN [s EXCEPT !.effects = Append(@, RenderOf(s))]
    ELSE s

\* the effects of the render r, which follows the render prev
runEffects(s, prev, r) ==
    LET a == IF scoreEffectDeps(r) # scoreEffectDeps(prev) THEN scoreEffect(s, r) ELSE s
        b == IF r.gameState # prev.gameState THEN cacheInitEffect(a, r) ELSE a
    IN  IF r.isConnected # prev.isConnected THEN rehydrationEffect(b, r) ELSE b

\* the effects of the first render: all of them run
mountEffects(s) ==
    LET r == RenderOf(s)
    IN  Commit(rehydrationEffect(cacheInitEffect(scoreEffect(s, r), r), r))

(***************************************************************************)
(* Initial state: the module-level singleton, constructed without handlers.*)
(***************************************************************************)
TInit ==
    [ws |-> "null", userId |-> NoUser, connectionState |-> "DISCONNECTED",
     reconnectAttempts |-> 0, reconnectTimeout |-> "null",
     keepAliveInterval |-> FALSE, pendingMessages |-> <<>>,
     throttled |-> FALSE, connectionQueue |-> <<>>, isProcessingQueue |-> FALSE,
     listening |-> TRUE,
     \* browser side
     orphanConnecting |-> 0, orphanOpen |-> 0, lostTimers |-> 0,
     queueTimer |-> FALSE, attemptSinceArm |-> FALSE,
     \* the step that produced the state
     last |-> "Init", arg |-> "", code |-> 0, created |-> 0, cb |-> {},
     exhausted |-> FALSE, scheduled |-> FALSE, sent |-> <<>>,
     \* inbound messages: the pending debounced delivery and the last message
     \* of each type
     messageDebounceTimers |-> [k \in WireTypes |-> <<>>],
     lastMessagesByType |-> [k \in WireTypes |-> <<>>],
     \* the step: the frame received, how it was classified, the messages
     \* handed to onMessage, whether a pending delivery was cleared
     frame |-> <<>>, priority |-> "", delivered |-> <<>>, cancelled |-> FALSE,
     \* what the last send() of the step returned
     returned |-> FALSE,
     \* the delay of the backoff timer the step scheduled, in 1/Unit ms
     backoff |-> 0]

\* the game page after its first render, with an empty sessionStorage
GInit ==
    [gameState |-> InitialGameState, version |-> 0, snapshot |-> <<>>,
     pendingUpdates |-> <<>>, flushTimers |-> 0, hasInitialized |-> FALSE,
     isConnected |-> FALSE, storage |-> <<>>,
     \* the renders whose effects have not run yet, and the last one whose
     \* effects have
     effects |-> <<>>,
     seen |-> [gameState |-> InitialGameState, isConnected |-> FALSE],
     \* the step that produced the state
     highSince |-> <<>>, last |-> "Init", msg |-> "", rehydrated |-> FALSE,
     submitted |-> <<>>, again |-> FALSE,
     \* the word sent to the server that has no result yet, and the result
     \* of a sent word after which no other message has arrived
     awaiting |-> <<>>, answered |-> <<>>,
     \* the patches of the batch staged so far, whether no timer fired and
     \* whether the interval flushed before the last of them was staged, and
     \* the values of the batch that flushes have applied
     staged |-> 0, inWindow |-> TRUE, tickInside |-> FALSE, applied |-> <<>>,
     \* whether the step sent GET_GAME_STATE or set a timer that sends it,
     \* and the item the page found in sessionStorage when it was mounted
     requested |-> FALSE, mounted |-> <<>>,
     \* the gameId of the route, and gameState.gameId, which is kept outside
     \* the record gameState
     gameId |-> "g1", stateGameId |-> "g1",
     \* QueuePage: queueStatus, whether send("JOIN_QUEUE") was called, and
     \* whether a 5 s timer of its onDisconnect handler is pending
     queue |-> [queueStatus |-> "IDLE", joinCalled |-> FALSE,
                lostTimer |-> FALSE],
     \* gameState.timeRemaining as <<minutes, seconds>>, the values of
     \* timeRemaining in pendingUpdates, and whether the message of the step
     \* carried a timeRemaining
     clock |-> [timeRemaining |-> <<0, 0>>, staged |-> <<>>, carried |-> FALSE]]

Init == t = TInit /\ g = GInit

Bounded(s) ==
    /\ s.orphanConnecting + s.orphanOpen <= MaxOrphans
    /\ s.lostTimers <= MaxLostTimers
    /\ Len(s.connectionQueue) <= MaxQueue
    /\ Len(s.pendingMessages) <= MaxMsgs

Step(s) == Bounded(s) /\ t' = s /\ UNCHANGED g

\* the name of the message of a new send() call
NewMessage(s) ==
    LET ids == {s.pendingMessages[i] : i \in 1..Len(s.pendingMessages)}
    IN  IF ids = {} THEN 1 ELSE 1 + CHOOSE m \in ids : \A n \in ids : n <= m

(***************************************************************************)
(* Calls of the public API.                                                *)
(***************************************************************************)
Connect(u) ==
    /\ Step(connect(Begin(t, "Connect", u), u))

Disconnect ==
    /\ Step(disconnect(Begin(t, "Disconnect", "")))

Send ==
    /\ Step(send(Begin(t, "Send", ""), NewMessage(t)))

(***************************************************************************)
(* Timers.                                                                 *)
(***************************************************************************)
\* the backoff timer this.reconnectTimeout refers to
ReconnectTimerFire ==
    /\ t.reconnectTimeout = "pending"
    /\ Step(establishConnection(
              [Begin(t, "ReconnectTimerFire", "") EXCEPT !.reconnectTimeout = "fired"]))

\* a backoff timer whose handle was overwritten by a later one
LostTimerFire ==
    /\ t.lostTimers > 0
    /\ Step(establishConnection(
              [Begin(t, "LostTimerFire", "") EXCEPT !.lostTimers = @ - 1]))

\* the 300 ms timer of processConnectionQueue.  It was armed 300 ms ago: if
\* no connection attempt was made since, the throttle window is over.
QueueTimerFire ==
    /\ t.queueTimer
    /\ LET s0 == [Begin(t, "QueueTimerFire", Head(t.connectionQueue))
                     EXCEPT !.queueTimer = FALSE,
                            !.throttled = @ /\ t.attemptSinceArm,
                            !.connectionQueue = Tail(@)]
       IN  Step(processConnectionQueue(connect(s0, Head(t.connectionQueue))))

\* 300 ms have passed since the last connection attempt.  A queue timer armed
\* before that attempt fires first.
ThrottleElapses ==
    /\ t.throttled
    /\ ~(t.queueTimer /\ t.attemptSinceArm)
    /\ Step([Begin(t, "ThrottleElapses", "") EXCEPT !.throttled = FALSE])

KeepAliveTick ==
    /\ t.keepAliveInterval
    /\ Step(send(Begin(t, "KeepAliveTick", ""), NewMessage(t)))

\* 5 s after establishConnection the socket is still connecting.  The timeout
\* set at line 109 was cleared at line 128, so no callback runs.
ConnectTimeoutElapses ==
    /\ t.ws = "CONNECTING"
    /\ Step(Begin(t, "ConnectTimeoutElapses", ""))

(***************************************************************************)
(* Browser events.                                                         *)
(***************************************************************************)
NetworkChange(onLine) ==
    /\ t.listening
    /\ Step(handleNetworkChange(
              Begin(t, "NetworkChange", IF onLine THEN "online" ELSE "offline"), onLine))

WsOpen ==
    /\ t.ws = "CONNECTING"
    /\ Step(onopen([Begin(t, "WsOpen", "") EXCEPT !.ws = "OPEN"]))

WsError ==
    /\ t.ws \in {"CONNECTING", "OPEN"}
    /\ Step(onerror(Begin(t, "WsError", "")))

WsClose(code) ==
    /\ t.ws \in {"CONNECTING", "OPEN"}
    /\ Step(onclose([Begin(t, "WsClose", "") EXCEPT !.ws = "CLOSED", !.code = code], code))

\* the same events on a socket that this.ws no longer refers to
OrphanOpen ==
    /\ t.orphanConnecting > 0
    /\ Step(onopen([Begin(t, "OrphanOpen", "")
                      EXCEPT !.orphanConnecting = @ - 1, !.orphanOpen = @ + 1]))

OrphanClose(code) ==
    \/ /\ t.orphanConnecting > 0
       /\ Step(onclose([Begin(t, "OrphanClose", "")
                           EXCEPT !.orphanConnecting = @ - 1, !.code = code], code))
    \/ /\ t.orphanOpen > 0
       /\ Step(onclose([Begin(t, "OrphanClose", "")
                           EXCEPT !.orphanOpen = @ - 1, !.code = code], code))

\* the steps of a page whose callers connect with the identities in U
NextOf(U) ==
    \/ \E u \in U : Connect(u)
    \/ Disconnect
    \/ Send
    \/ ReconnectTimerFire
    \/ LostTimerFire
    \/ QueueTimerFire
    \/ ThrottleElapses
    \/ KeepAliveTick
    \/ ConnectTimeoutElapses
    \/ \E b \in BOOLEAN : NetworkChange(b)
    \/ WsOpen
    \/ WsError
    \/ \E c \in CloseCodes : WsClose(c)
    \/ OrphanOpen
    \/ \E c \in CloseCodes : OrphanClose(c)

Next == NextOf(Users)

Spec == Init /\ [][Next]_vars

\* The session of one user, in which the browser runs every timer that stays
\* pending.
FairSpec ==
    /\ Init /\ [][NextOf({"u1"})]_vars
    /\ WF_vars(ReconnectTimerFire)
    /\ WF_vars(LostTimerFire)
    /\ WF_vars(QueueTimerFire)
    /\ WF_vars(ThrottleElapses)

(***************************************************************************)
(* The game page: events.                                                  *)
(***************************************************************************)
GBegin(s, name, msg) ==
    [s EXCEPT !.last = name, !.msg = msg, !.rehydrated = FALSE,
              !.submitted = <<>>, !.again = FALSE, !.requested = FALSE,
              !.mounted = <<>>]

GBounded(s, B) ==
    /\ Len(s.pendingUpdates) <= B.pending
    /\ s.flushTimers <= B.pending
    /\ s.version <= B.version
    /\ Len(s.effects) <= MaxRenders

\* a handler and the render it causes
GStep(s, B) ==
    LET r == Commit(s)
    IN  GBounded(r, B) /\ g' = r /\ UNCHANGED t

\* the effects of the oldest render that still waits for them
RunEffects(B) ==
    /\ g.effects # <<>>
    /\ LET r == Head(g.effects)
           s == [GBegin(g, "RunEffects", "") EXCEPT !.effects = Tail(@), !.seen = r]
       IN  GStep(runEffects(s, g.seen, r), B)

\* the messages the server sends in the model
Letters == <<"C", "A", "T">>

Cat == <<"C", "A", "T">>
Dog == <<"D", "O", "G">>

GameMessages ==
    { [type |-> "GAME_JOINED"],
      [type |-> "OPPONENT_JOINED", opponentName |-> "Ava"],
      [type |-> "GAME_STARTED", letters |-> Letters],
      [type |-> "GAME_UPDATE", score |-> 5],
      [type |-> "GAME_UPDATE", score |-> 99],
      [type |-> "WORD_SUBMISSION_RESULT", success |-> TRUE, word |-> Cat,
       score |-> 9],
      [type |-> "OPPONENT_SCORED", word |-> Dog, opponentScore |-> 7],
      [type |-> "GAME_ENDED", winner |-> "player"] }

\* the message names a word that is already in the list it is to join
WordAgain(s, m) ==
    /\ "word" \in DOMAIN m
    /\ \/ m.type = "WORD_SUBMISSION_RESULT" /\ Includes(s.gameState.foundWords, m.word)
       \/ m.type = "OPPONENT_SCORED" /\ Includes(s.gameState.opponentWords, m.word)

\* the message is the server's result for the word that awaits one
Answers(s, m) ==
    /\ m.type = "WORD_SUBMISSION_RESULT"
    /\ s.awaiting # <<>>
    /\ m.word = s.awaiting

\* onMessage of the handlers the page registers
HandleMessage(m, B) ==
    /\ GStep(handleGameMessage(
            [GBegin(g, "HandleMessage", m.type)
                EXCEPT !.again = WordAgain(g, m),
                       !.awaiting = IF Answers(g, m) THEN <<>> ELSE @,
                       !.answered = IF Answers(g, m) THEN <<m>> ELSE <<>>], m), B)

\* a batch of normal-priority patches of one field, staged one by one
MaxBatch == 3

BatchNames == <<"Ava", "Ben", "Cyd", "Dee">>

\* the record of a flush from s to r that happens while a batch is applied
NoteFlush(s, r, name) ==
    LET staging == 0 < s.staged /\ s.staged < MaxBatch
    IN  [r EXCEPT !.inWindow = @ /\ ~(staging /\ name = "FlushTimerFire"),
                  !.tickInside = @ \/ (staging /\ name = "FlushIntervalTick"),
                  !.applied = IF s.staged > 0 /\ r.version # s.version
                              THEN Append(@, r.gameState.opponentName)
                              ELSE @]

\* a timer of setTimeout(applyPendingUpdates, 50)
FlushTimerFire(B) ==
    /\ g.flushTimers > 0
    /\ LET s == [GBegin(g, "FlushTimerFire", "") EXCEPT !.flushTimers = @ - 1]
       IN  GStep(NoteFlush(s, applyPendingUpdates(s), "FlushTimerFire"), B)

\* the 500 ms interval of lines 417-425
FlushIntervalTick(B) ==
    /\ Len(g.pendingUpdates) > 0
    /\ LET s == GBegin(g, "FlushIntervalTick", "")
       IN  GStep(NoteFlush(s, applyPendingUpdates(s), "FlushIntervalTick"), B)

\* onConnect of the handlers the page registers: setIsConnected(true)
PageOnConnect(B) ==
    /\ ~g.isConnected
    /\ GStep([GBegin(g, "PageOnConnect", "") EXCEPT !.isConnected = TRUE], B)

\* onDisconnect and onError of the handlers the page registers:
\* setIsConnected(false); the gameState they read is RegisteredGameState,
\* whose gameStatus is not ACTIVE, so neither calls reconnectWebSocket
PageOnDisconnect(B) ==
    /\ g.isConnected
    /\ GStep([GBegin(g, "PageOnDisconnect", "") EXCEPT !.isConnected = FALSE], B)

\* the item of sessionStorage when the clock has reached the age a
Aged(storage, a) ==
    IF storage = <<>> THEN storage
    ELSE <<[storage[1] EXCEPT !.age = IF @ < a THEN a ELSE @]>>

\* the page is unloaded and, when the item it may have written has the age
\* a, loaded again in the same tab
Reload(a) ==
    /\ LET found == Aged(handleBeforeUnload(g).storage, a)
       IN  g' = mountEffects([GInit EXCEPT !.storage = found,
                                           !.mounted = found,
                                           !.gameId = g.gameId,
                                           !.stateGameId = g.gameId,
                                           !.last = "Reload"])
    /\ UNCHANGED t

GameIds == {"g1", "g2"}

\* the page of the game id is left and, when the item it may have written
\* has the age a, the page of another game is opened in the same tab
Navigate(a, id) ==
    /\ id # g.gameId
    /\ LET found == Aged(handleBeforeUnload(g).storage, a)
       IN  g' = mountEffects([GInit EXCEPT !.storage = found,
                                           !.mounted = found,
                                           !.gameId = id,
                                           !.stateGameId = id,
                                           !.last = "Reload",
                                           !.msg = "Navigate"])
    /\ UNCHANGED t

\* time passes: the item in sessionStorage gets the next age
StorageAges ==
    /\ g.storage # <<>>
    /\ g.storage[1].age < Len(SnapshotAges)
    /\ g' = [GBegin(g, "StorageAges", "")
                EXCEPT !.storage = <<[@[1] EXCEPT !.age = @ + 1]>>]
    /\ UNCHANGED t

\* the events of one page load that no player causes, for the messages M
\* within the bounds B
PageNextOf(M, B) ==
    \/ \E m \in M : HandleMessage(m, B)
    \/ FlushTimerFire(B)
    \/ FlushIntervalTick(B)
    \/ PageOnConnect(B)
    \/ PageOnDisconnect(B)
    \/ RunEffects(B)

StoreNextOf(M, B) ==
    \/ PageNextOf(M, B)
    \/ \E a \in 1..Len(SnapshotAges) : Reload(a)
    \/ StorageAges

StoreBounds == [version |-> MaxVersion, pending |-> MaxPending]

StoreNext == StoreNextOf(GameMessages, StoreBounds)

StoreSpec == Init /\ [][StoreNext]_vars

(***************************************************************************)
(* The inbound side of one session: the server's frames arrive on the open *)
(* socket and debounce timers fire, while the page connects, disconnects   *)
(* and loses the connection.  The page's onError runs in the step that     *)
(* reports the error.                                                      *)
(***************************************************************************)
WireMessages ==
    { [type |-> "GAME_JOINED", opponentName |-> "Ava"],
      [type |-> "GAME_JOINED", opponentName |-> "Ben"],
      [type |-> "PONG"],
      [type |-> "GAME_STATE", foundWords |-> <<Cat>>],
      [type |-> "GAME_STATE", foundWords |-> <<Cat, Dog>>],
      [type |-> "GAME_STATE", score |-> 5],
      [type |-> "GAME_STATE", payload |-> [foundWords |-> <<Cat>>]],
      [type |-> "GAME_STARTED", letters |-> Letters] }

WsMessage(m) ==
    /\ t.ws = "OPEN"
    /\ Step(onmessage(Begin(t, "WsMessage", m.type), m))

WsBadFrame ==
    /\ t.ws = "OPEN"
    /\ LET s == onmessageUnparseable(Begin(t, "WsBadFrame", ""))
           r == Commit([GBegin(g, "PageOnError", "") EXCEPT !.isConnected = FALSE])
       IN  /\ Bounded(s)
           /\ GBounded(r, StoreBounds)
           /\ t' = s
           /\ g' = r

DebounceTimerFire(k) ==
    /\ t.messageDebounceTimers[k] # <<>>
    /\ Step(debouncedDelivery(Begin(t, "DebounceTimerFire", k), k))

MsgNext ==
    \/ Connect("u1")
    \/ Disconnect
    \/ ThrottleElapses
    \/ QueueTimerFire
    \/ WsOpen
    \/ WsClose(NormalClosure)
    \/ \E m \in WireMessages : WsMessage(m)
    \/ WsBadFrame
    \/ \E k \in WireTypes : DebounceTimerFire(k)
    \/ PageOnConnect(StoreBounds)
    \/ PageOnDisconnect(StoreBounds)
    \/ RunEffects(StoreBounds)

MsgSpec == Init /\ [][MsgNext]_vars

(***************************************************************************)
(* The store alone: a caller stages the patches {opponentName: BatchNames[i]} *)
(* for i = 1, 2, ... with normal priority, while timers and the interval   *)
(* flush.                                                                  *)
(***************************************************************************)
BatchBounds == [version |-> MaxBatch, pending |-> MaxBatch]

BatchStage(i) ==
    /\ i = g.staged + 1
    /\ GStep([stageUpdate(GBegin(g, "BatchStage", ""),
                          [opponentName |-> BatchNames[i]], "normal")
                 EXCEPT !.staged = i], BatchBounds)

BatchNext ==
    \/ \E i \in 1..MaxBatch : BatchStage(i)
    \/ FlushTimerFire(BatchBounds)
    \/ FlushIntervalTick(BatchBounds)
    \/ PageOnConnect(BatchBounds)
    \/ PageOnDisconnect(BatchBounds)
    \/ RunEffects(BatchBounds)

BatchSpec == Init /\ [][BatchNext]_vars

(***************************************************************************)
(* One game played on one page load: the server's messages of a game with  *)
(* the words CAT and DOG, and a player who types these words.              *)
(***************************************************************************)
MaxPlayVersion == 10

PlayBounds == [version |-> MaxPlayVersion, pending |-> MaxPending]

PlayLetters == <<"C", "A", "T", "D", "O", "G">>

PlayWords == {Cat}

PlayMessages ==
    { [type |-> "GAME_STARTED", letters |-> PlayLetters],
      [type |-> "WORD_SUBMISSION_RESULT", success |-> TRUE, word |-> Cat,
       score |-> 9],
      [type |-> "WORD_SUBMISSION_RESULT", success |-> TRUE, word |-> Dog,
       score |-> 9],
      [type |-> "OPPONENT_SCORED", word |-> Dog, opponentScore |-> 7],
      [type |-> "GAME_ENDED", winner |-> "player"],
      [type |-> "GAME_STATE", gameStatus |-> "FINISHED", opponentConnected |-> TRUE] }

IsPrefix(p, w) == Len(p) <= Len(w) /\ SubSeq(w, 1, Len(p)) = p

CanPlay(s) == s.isConnected /\ s.gameState.gameStatus = "ACTIVE"

LetterClick(letter) ==
    /\ CanPlay(g)
    /\ \E w \in PlayWords : IsPrefix(Append(g.gameState.currentWord, letter), w)
    /\ GStep(handleLetterClick(GBegin(g, "LetterClick", ""), letter), PlayBounds)

Delete ==
    /\ CanPlay(g)
    /\ GStep(handleDelete(GBegin(g, "Delete", "")), PlayBounds)

Enter ==
    /\ CanPlay(g)
    /\ Len(g.gameState.currentWord) > 0
    /\ LET s == handleEnter(GBegin(g, "Enter", ""))
       IN  GStep([s EXCEPT !.awaiting = IF s.submitted # <<>> THEN s.submitted ELSE @,
                           !.answered = IF s.submitted # <<>> THEN <<>> ELSE @],
                 PlayBounds)

PlayNext ==
    \/ PageNextOf(PlayMessages, PlayBounds)
    \/ \E i \in 1..Len(PlayLetters) : LetterClick(PlayLetters[i])
    \/ Delete
    \/ Enter

PlaySpec == Init /\ [][PlayNext]_vars

(***************************************************************************)
(* Properties of the transport.                                            *)
(***************************************************************************)
Increasing(q) == \A i, j \in 1..Len(q) : i < j => q[i] < q[j]

IsLive(r) == r \in {"CONNECTING", "OPEN"}

\* sockets that are connecting or open and carry the handlers of the service
LiveSockets(s) == (IF IsLive(s.ws) THEN 1 ELSE 0) + s.orphanConnecting + s.orphanOpen

PendingBackoffTimers(s) == (IF s.reconnectTimeout = "pending" THEN 1 ELSE 0) + s.lostTimers

\* the state without the description of the step that produced it
Core(s) ==
    [s EXCEPT !.last = "", !.arg = "", !.code = 0, !.created = 0, !.cb = {},
              !.exhausted = FALSE, !.scheduled = FALSE, !.sent = <<>>,
              !.returned = FALSE, !.backoff = 0]

ConnectSteps == {"Connect", "QueueTimerFire"}
OpenSteps == {"WsOpen", "OrphanOpen"}
CloseSteps == {"WsClose", "OrphanClose"}

C4_ConnectIdempotent ==
    [][(t'.last = "Connect" /\ t.ws = "OPEN" /\ t.userId = t'.arg)
          => (Core(t') = Core(t) /\ t'.created = 0)]_vars

C4_Witness == t.last = "Connect" /\ t.ws = "OPEN" /\ t.userId = t.arg /\ t.created = 0

\* C5: at most one socket of the transport is connecting or open with the
\* handlers of the transport attached.
C5_SingleAttempt == LiveSockets(t) <= 1

\* five reconnect attempts are used up and nothing is left that could retry
GivenUp(s) ==
    /\ s.reconnectAttempts >= maxReconnectAttempts
    /\ s.connectionState = "DISCONNECTED"
    /\ PendingBackoffTimers(s) = 0
    /\ LiveSockets(s) = 0

C8_TimeoutAbandons ==
    t.last = "ConnectTimeoutElapses"
        => (t.ws = "null" /\ t.connectionState = "RECONNECTING")

\* C9: when a reconnect is needed and the attempts are used up, the error
\* handler of the caller is invoked.
C9_ExhaustionReported == t.exhausted => "onError" \in t.cb

(***************************************************************************)
(* Properties of the store of the game page.                               *)
(***************************************************************************)
FlushSteps == {"FlushTimerFire", "FlushIntervalTick"}

\* the index of the pending update whose value of field f a flush applies
Winner(updates, f) ==
    CHOOSE i \in 1..Len(updates) :
        /\ f \in DOMAIN updates[i]
        /\ \A j \in (i + 1)..Len(updates) : f \notin DOMAIN updates[j]

\* the fields of which a flush of the store s applies the value of an
\* update that was staged before a high-priority update of the same field
Superseded(s) ==
    {f \in DOMAIN SpreadAll(s.pendingUpdates) :
        f \in s.highSince[Winner(s.pendingUpdates, f)]}

\* C1: when a normal-priority update of a field is staged and a
\* high-priority update of the same field is staged before the flush, the
\* flush leaves the field at the value it has: the normal value is never
\* applied over the high-priority one.
C1_HighNotOverwritten ==
    [][g'.last \in FlushSteps
        => \A f \in Superseded(g) : g'.gameState[f] = g.gameState[f]]_vars

ProtectedFields == {"score", "opponentScore", "foundWords", "opponentWords"}

\* C2: once gameStatus is FINISHED, no event of a page session changes
\* score, opponentScore, foundWords or opponentWords.
C2_FinishedIsFrozen ==
    [][(g.gameState.gameStatus = "FINISHED" /\ g'.last # "Reload")
        => \A f \in ProtectedFields : g'.gameState[f] = g.gameState[f]]_vars

\* C10: within a page session the version of the store's snapshot never
\* decreases, rehydration from sessionStorage included.
C10_VersionMonotone ==
    [][g'.last # "Reload" => g'.version >= g.version]_vars

(***************************************************************************)
(* Claims about the game played on the page                                *)
(***************************************************************************)
NoDuplicates(words) ==
    \A i, j \in 1..Len(words) : i # j => words[i] # words[j]

\* C11: foundWords and opponentWords never hold a word twice, also when a
\* submission of a word already found is accepted and when the same
\* WORD_SUBMISSION_RESULT or OPPONENT_SCORED is processed again.
C11_NoDuplicateWords ==
    /\ NoDuplicates(g.gameState.foundWords)
    /\ NoDuplicates(g.gameState.opponentWords)

\* a result for a word that was already in foundWords has been processed
C11_Witness ==
    /\ g.last = "HandleMessage"
    /\ g.msg = "WORD_SUBMISSION_RESULT"
    /\ g.again
    /\ Len(g.gameState.foundWords) > 0

\* every word of old is a word of new
Keeps(new, old) == \A i \in 1..Len(old) : Includes(new, old[i])

\* C12: during one page load foundWords and opponentWords only grow: no
\* message, optimistic update or flush removes a word from either list.
C12_WordsOnlyGrow ==
    [][/\ Keeps(g'.gameState.foundWords, g.gameState.foundWords)
       /\ Keeps(g'.gameState.opponentWords, g.gameState.opponentWords)]_vars

StatusRank == [PENDING |-> 0, ACTIVE |-> 1, FINISHED |-> 2]

\* C13: gameStatus only moves forward, from PENDING to ACTIVE to FINISHED:
\* no inbound message takes it back to an earlier status.
C13_StatusForward ==
    [][g'.last = "HandleMessage"
        => StatusRank[g'.gameState.gameStatus] >= StatusRank[g.gameState.gameStatus]]_vars

\* nothing waits: no staged update, no flush timer, no effect
Quiet(s) == s.pendingUpdates = <<>> /\ s.flushTimers = 0 /\ s.effects = <<>>

Count(words, word) == Cardinality({i \in 1..Len(words) : words[i] = word})

\* C14: when a word was submitted with its optimistic update and the
\* server's result {success, word, score: S} has arrived, then once nothing
\* is pending any more score is S and foundWords holds the word exactly
\* once, in whatever order result and flushes happened.
C14_ResultWins ==
    (Quiet(g) /\ g.answered # <<>>)
        => /\ g.gameState.score = g.answered[1].score
           /\ Count(g.gameState.foundWords, g.answered[1].word) = 1

\* the batch is staged and applied: nothing of it waits
BatchDone(s) == s.staged = MaxBatch /\ s.pendingUpdates = <<>> /\ s.flushTimers = 0

\* C15 as stated: patches {x: 1}, {x: 2}, {x: 3} staged with normal
\* priority within one 50 ms window are applied by exactly one flush, with
\* x = 3, and the values 1 and 2 are never applied, also when the 500 ms
\* interval flushes inside the window.
C15_Original ==
    (BatchDone(g) /\ g.inWindow) => g.applied = <<BatchNames[MaxBatch]>>

\* C15 amended: the last value applied is that of the last patch; the
\* batch is applied by one flush, and no earlier value ever, when the
\* interval does not flush before the last patch is staged.
C15_LastPatchWins ==
    (BatchDone(g) /\ g.inWindow)
        => /\ g.applied # <<>>
           /\ g.applied[Len(g.applied)] = BatchNames[MaxBatch]
           /\ g.gameState.opponentName = BatchNames[MaxBatch]
           /\ ~g.tickInside => g.applied = <<BatchNames[MaxBatch]>>

\* the whole batch was staged before any timer fired, and one flush applied it
C15_Witness ==
    /\ BatchDone(g)
    /\ g.inWindow
    /\ ~g.tickInside
    /\ g.applied = <<BatchNames[MaxBatch]>>

(***************************************************************************)
(* Claims about inbound messages                                           *)
(***************************************************************************)
\* C16: a high-priority message is handed to onMessage in the step that
\* receives it, and a pending debounced delivery of the same type is
\* cancelled.
C16_HighDeliveredAtOnce ==
    (t.last = "WsMessage" /\ t.priority = "high")
        => /\ t.delivered = t.frame
           /\ t.messageDebounceTimers[t.arg] = <<>>

\* a high-priority message arrived while a delivery of its type was pending
C16_Witness ==
    /\ t.last = "WsMessage"
    /\ t.priority = "high"
    /\ t.cancelled
    /\ t.delivered = t.frame

\* C17: of normal-priority messages of one type that arrive before the
\* debounce timer fires only the last is delivered, once; a message of
\* another type neither cancels nor replaces the pending delivery.
C17_DebouncePerType ==
    [][/\ (t' # t /\ t'.last = "WsMessage" /\ t'.priority = "normal")
            => /\ t'.delivered = <<>>
               /\ t'.messageDebounceTimers[t'.arg] = t'.frame
               /\ \A k \in WireTypes \ {t'.arg} :
                     t'.messageDebounceTimers[k] = t.messageDebounceTimers[k]
       /\ (t' # t /\ t'.last = "DebounceTimerFire")
            => /\ t'.delivered = t.lastMessagesByType[t'.arg]
               /\ t'.messageDebounceTimers[t'.arg] = <<>>
               /\ \A k \in WireTypes \ {t'.arg} :
                     t'.messageDebounceTimers[k] = t.messageDebounceTimers[k]]_vars

\* a normal message replaced the pending delivery of its type while a
\* delivery of another type was pending
C17_Witness ==
    /\ t.last = "WsMessage"
    /\ t.priority = "normal"
    /\ t.cancelled
    /\ \E k \in WireTypes \ {t.arg} : t.messageDebounceTimers[k] # <<>>

\* the message carries an array that is longer than the one in previous,
\* the message of its type received before it
Grown(message, previous) ==
    \E field \in arrayFields :
        /\ Has(PayloadOf(message), field)
        /\ Has(PayloadOf(previous), field)
        /\ Len(PayloadOf(message)[field]) > Len(PayloadOf(previous)[field])

\* the message carries an array and a message of its type with that array
\* was received before it
Comparable(message, previous) ==
    \A field \in arrayFields :
        Has(PayloadOf(message), field)
            => previous # <<>> /\ Has(PayloadOf(previous[1]), field)

\* C18: a message is classified high exactly when its type is one of
\* GAME_STARTED, GAME_ENDED, WORD_SUBMISSION_RESULT, OPPONENT_SCORED,
\* OPPONENT_DISCONNECTED, OPPONENT_RECONNECTED, OPPONENT_JOINED, or its
\* payload carries letters, score, opponentScore or gameStatus, or a
\* foundWords or opponentWords array longer than in the previous message of
\* its type; otherwise it is classified normal.
C18_Classification ==
    [][(t' # t /\ t'.last = "WsMessage"
            /\ Comparable(t'.frame[1], t.lastMessagesByType[t'.arg]))
        => LET message == t'.frame[1]
               payload == PayloadOf(message)
               previous == t.lastMessagesByType[t'.arg]
           IN  (t'.priority = "high")
                <=> \/ message.type \in highPriorityTypes
                    \/ Has(payload, "letters")
                    \/ Has(payload, "score") \/ Has(payload, "opponentScore")
                    \/ Has(payload, "gameStatus")
                    \/ previous # <<>> /\ Grown(message, previous[1])]_vars

\* C19: after disconnect() no handler of the caller is invoked: every timer
\* of the service is cancelled, so no message is handed to onMessage while
\* the service is disconnected.
C19_SilentAfterDisconnect ==
    t.userId = NoUser => (t.delivered = <<>> /\ t.cb = {})

\* C20: a frame that cannot be parsed is reported to the error handler and
\* dropped: the socket is not closed, the connection state does not change,
\* and the session, the game page's connection included, stays connected.
C20_BadFrameDropped ==
    [][(t'.last = "WsBadFrame" /\ g'.last = "PageOnError")
        => /\ "onError" \in t'.cb
           /\ t'.delivered = <<>>
           /\ t'.ws = t.ws
           /\ t'.connectionState = t.connectionState
           /\ g'.isConnected = g.isConnected]_vars

(***************************************************************************)
(* Claims about connecting and sending                                     *)
(***************************************************************************)
\* connect(userId) returns at lines 50-53
AlreadyConnected(s, userId) == s.ws = "OPEN" /\ s.userId = userId

CanTransmit(s) == s.connectionState = "CONNECTED" /\ s.ws = "OPEN"

\* the transport's socket is connecting or its backoff retry is scheduled
AttemptInProgress(s) ==
    \/ s.ws = "CONNECTING"
    \/ s.reconnectTimeout = "pending"

\* C22: send() returns true exactly when it handed the message to an open
\* socket in that call; when the transport (of a session with an identity)
\* is not connected it returns false, appends the message to the outbound
\* queue, and starts a connection attempt if and only if none is in
\* progress.
C22_SendContract ==
    [][(t'.last = "Send" /\ t.userId # NoUser)
        => /\ t'.returned <=> t'.sent = <<NewMessage(t)>>
           /\ ~CanTransmit(t)
                => /\ ~t'.returned
                   /\ t'.pendingMessages = Append(t.pendingMessages, NewMessage(t))
                   /\ t'.created > 0 <=> ~AttemptInProgress(t)]_vars

\* C23: a message queued by send() while the transport is not connected
\* stays in the outbound queue until a socket opens: no step other than an
\* open removes it, whether the reconnection comes from the transport's
\* backoff retry or from the page's reconnect routine, which calls
\* disconnect() and then connect().
C23_QueuedSurvives ==
    [][t'.last \notin {"WsOpen", "OrphanOpen"}
        => IsPrefix(t.pendingMessages, t'.pendingMessages)]_vars

\* the attempts the delay is computed for
MaxAttempt == 12

\* a delay in whole milliseconds, halves rounded up
Rounded(d) == (2 * d + Unit) \div (2 * Unit)

\* C26: the delay scheduled for attempt n is 500, 1000, 1500, 2250, 3375
\* ms for the attempts 1..5 the transport makes, the formula gives 5062.5
\* (5063 rounded) for n = 6, and over all attempts the delays never
\* decrease and never exceed 15000 ms.
C26_BackoffSchedule ==
    /\ t.scheduled
        => /\ t.reconnectAttempts \in 1..maxReconnectAttempts
           /\ t.backoff
                = Unit * <<500, 1000, 1500, 2250, 3375>>[t.reconnectAttempts]
    /\ 2 * backoffTime(6) = 10125 * Unit
    /\ Rounded(backoffTime(6)) = 5063
    /\ \A n \in 1..MaxAttempt :
        /\ backoffTime(n) <= maxBackoff * Unit
        /\ backoffTime(n) <= backoffTime(n + 1)
        /\ n = 1 \/ backoffTime(n - 1) < backoffTime(n) \/ backoffTime(n) = maxBackoff * Unit
    /\ backoffTime(MaxAttempt) = maxBackoff * Unit

C26_Witness ==
    /\ t.scheduled
    /\ t.reconnectAttempts = maxReconnectAttempts
    /\ t.backoff = 3375 * Unit

\* the item the rehydration effect reads in the step from a to b
Found(a, b) == IF b.last = "Reload" THEN b.mounted ELSE a.storage

\* C24: a persisted snapshot is loaded as GameState only if its age is below
\* 30 s, and on mount one of that age is loaded; a snapshot aged 30 s or
\* more found on mount is not applied and is removed from storage.
C24_FreshSnapshotOnly ==
    [][/\ g'.rehydrated
            => /\ Found(g, g') # <<>>
               /\ SnapshotAges[Found(g, g')[1].age] < 30000
               /\ g'.gameState = Found(g, g')[1].snapshot
       /\ (g'.last = "Reload" /\ g'.mounted # <<>>)
            => IF SnapshotAges[g'.mounted[1].age] < 30000
               THEN g'.rehydrated /\ g'.storage = g'.mounted
               ELSE /\ ~g'.rehydrated
                    /\ g'.gameState = InitialGameState
                    /\ g'.snapshot = <<>>
                    /\ g'.storage = <<>>]_vars

C24_Witness ==
    /\ g.last = "Reload"
    /\ g.mounted # <<>>
    /\ SnapshotAges[g.mounted[1].age] = 31000
    /\ g.mounted[1].snapshot # InitialGameState
    /\ g.gameState = InitialGameState
    /\ g.storage = <<>>

(***************************************************************************)
(* One page that is unloaded and loaded again once, with its intervals:    *)
(* the polls of an active game and the check of a pending one.  Effects    *)
(* run, the connection opens when it is closed, and an interval that is    *)
(* set again and again fires.                                              *)
(***************************************************************************)
MaxLoadVersion == 2

LoadBounds == [version |-> MaxLoadVersion, pending |-> MaxPending]

LoadMessages ==
    { [type |-> "GAME_STARTED", letters |-> Letters],
      [type |-> "GAME_UPDATE", score |-> 5],
      [type |-> "GAME_ENDED", winner |-> "player"] }

\* the intervals of lines 448-464 and 714-733, set by the effects of a
\* render that is connected and ACTIVE: GET_GAME_STATE is sent
PollTick ==
    /\ g.seen.isConnected
    /\ g.seen.gameState.gameStatus = "ACTIVE"
    /\ GStep([GBegin(g, "PollTick", "") EXCEPT !.requested = TRUE], LoadBounds)

ForcedLetters == <<"A", "B", "C", "D", "E", "F", "G", "H">>

\* the forced activation starting from the initial GameState instead of prev
forceCheckFromInitial(s, late) ==
    LET s1 == [s EXCEPT !.requested = TRUE]
    IN  IF late
        THEN [s1 EXCEPT !.gameState = Spread(InitialGameState,
                                             [gameStatus |-> "ACTIVE",
                                              opponentConnected |-> TRUE,
                                              letters |-> ForcedLetters])]
        ELSE s1

\* the 3 s interval of lines 625-659, set by the effects of a render that is
\* connected and PENDING: GET_GAME_STATE is sent, and when more than 15 s
\* have passed since the mount (late) the game is made ACTIVE
forceCheck(s, late) ==
    LET s1 == [s EXCEPT !.requested = TRUE]
    IN  IF late
        THEN [s1 EXCEPT !.gameState = Spread(@, [gameStatus |-> "ACTIVE",
                                                 opponentConnected |-> TRUE,
                                                 letters |-> ForcedLetters])]
        ELSE s1

ForceCheckTick(late) ==
    /\ g.seen.isConnected
    /\ g.seen.gameState.gameStatus = "PENDING"
    /\ GStep(forceCheck(GBegin(g, "ForceCheckTick", ""), late), LoadBounds)

\* the first unload of the page, and the mount that follows
LoadReload(a) ==
    /\ g.storage = <<>>
    /\ g.mounted = <<>>
    /\ Reload(a)

LoadNext ==
    \/ PageNextOf(LoadMessages, LoadBounds)
    \/ \E a \in 1..Len(SnapshotAges) : LoadReload(a)
    \/ StorageAges
    \/ PollTick
    \/ \E late \in BOOLEAN : ForceCheckTick(late)

LoadSpec ==
    /\ Init /\ [][LoadNext]_vars
    /\ WF_vars(RunEffects(LoadBounds))
    /\ WF_vars(FlushTimerFire(LoadBounds))
    /\ SF_vars(PageOnConnect(LoadBounds))
    /\ SF_vars(PollTick)
    /\ SF_vars(\E late \in BOOLEAN : ForceCheckTick(late))

\* a persisted snapshot was loaded as the initial GameState
Loaded == g.last = "Reload" /\ g.rehydrated

\* C25: whenever a persisted snapshot is loaded as the initial GameState,
\* GET_GAME_STATE is sent afterwards (a server message that arrives may
\* cause the request as well, and counts as one).
C25_RequestFollowsLoad ==
    Loaded ~> (g.requested \/ g.last = "HandleMessage")

\* C27: when gameStatus is PENDING, the message OPPONENT_JOINED with the
\* opponentName "Ava" leaves gameStatus ACTIVE, opponentConnected true and
\* opponentName "Ava".
C27_OpponentJoinedActivates ==
    [][(/\ g'.last = "HandleMessage"
        /\ g'.msg = "OPPONENT_JOINED"
        /\ g.gameState.gameStatus = "PENDING")
        => /\ g'.gameState.gameStatus = "ACTIVE"
           /\ g'.gameState.opponentConnected
           /\ g'.gameState.opponentName = "Ava"]_vars

C27_Witness ==
    /\ g.last = "HandleMessage"
    /\ g.msg = "OPPONENT_JOINED"
    /\ g.gameState.gameStatus = "ACTIVE"
    /\ g.gameState.opponentName = "Ava"
    /\ g.gameState.letters = PlaceholderLetters

\* the message carries the status ACTIVE or a non-empty letter set, as every
\* event with the status active, or with opponent-connected and letters, does
MayActivate(m) ==
    \/ Defined(PayloadOf(m), "gameStatus") /\ PayloadOf(m).gameStatus = "ACTIVE"
    \/ Truthy(PayloadOf(m), "letters")

\* C28: gameStatus changes from PENDING to ACTIVE on one page only in a step
\* that handles an inbound message, and that message carries the status
\* ACTIVE or a non-empty letter set.
C28_ActivationNeedsEvent ==
    [][(/\ g.gameState.gameStatus = "PENDING"
        /\ g'.gameState.gameStatus = "ACTIVE"
        /\ g'.last # "Reload")
        => /\ g'.last = "HandleMessage"
           /\ \E m \in GameMessages : m.type = g'.msg /\ MayActivate(m)]_vars

(***************************************************************************)
(* The end of a game on one page: the game starts, the server ends it with *)
(* or without the opponent's name in the event, and the local countdown    *)
(* runs while the game is ACTIVE.                                          *)
(***************************************************************************)
EndMessages ==
    { [type |-> "GAME_STARTED", letters |-> Letters],
      [type |-> "GAME_UPDATE", score |-> 5],
      [type |-> "GAME_ENDED", winner |-> "player"],
      [type |-> "GAME_ENDED", winner |-> "opponent", opponentName |-> "Ava"] }

\* The 1 s interval of lines 667-711, set by the effects of a render that is
\* ACTIVE; timeRemaining is not part of the model, and zero tells whether
\* the render's timeRemaining reads 00:00.
countdown(s, zero) ==
    IF zero
    THEN [s EXCEPT !.gameState = Spread(@, [gameStatus |-> "FINISHED"])]
    ELSE s

CountdownTick(zero) ==
    /\ g.seen.gameState.gameStatus = "ACTIVE"
    /\ GStep(countdown(GBegin(g, "CountdownTick", IF zero THEN "zero" ELSE "tick"),
                       zero), PlayBounds)

EndNext ==
    \/ PageNextOf(EndMessages, PlayBounds)
    \/ \E zero \in BOOLEAN : CountdownTick(zero)

EndSpec == Init /\ [][EndNext]_vars

\* C29: while gameStatus is ACTIVE, handling GAME_ENDED leaves gameStatus
\* FINISHED whatever other fields the event carries, and so does the local
\* countdown when it finds the time at zero.
C29_EndAlwaysFinishes ==
    [][/\ (/\ g.gameState.gameStatus = "ACTIVE"
           /\ g'.last = "HandleMessage"
           /\ g'.msg = "GAME_ENDED")
            => g'.gameState.gameStatus = "FINISHED"
       /\ (/\ g.gameState.gameStatus = "ACTIVE"
           /\ g'.last = "CountdownTick"
           /\ g'.msg = "zero")
            => g'.gameState.gameStatus = "FINISHED"]_vars

(***************************************************************************)
(* The transport with the game page's handlers registered: the onConnect   *)
(* handler of the page (page.tsx 523-557) calls sendJoinGameRequest, that  *)
(* is send("JOIN_GAME", ...), while onopen is running.                      *)
(***************************************************************************)
\* onopen (lines 138-149) calling the page's onConnect: the handler runs
\* after connectionState is set and before processPendingMessages
onopenJoining(s) ==
    LET s1 == [s EXCEPT !.connectionState = "CONNECTED",
                        !.reconnectAttempts = 0,
                        !.cb = @ \cup {"onConnect"}]
        s2 == send(s1, NewMessage(s1))
    IN  processPendingMessages(setupKeepAlive(s2))

WsOpenJoin ==
    /\ t.ws = "CONNECTING"
    /\ Step(onopenJoining([Begin(t, "WsOpenJoin", "") EXCEPT !.ws = "OPEN"]))

JoinNext ==
    \/ Connect("u1")
    \/ Send
    \/ ReconnectTimerFire
    \/ ThrottleElapses
    \/ QueueTimerFire
    \/ KeepAliveTick
    \/ WsOpenJoin
    \/ \E c \in CloseCodes : WsClose(c)

JoinSpec == Init /\ [][JoinNext]_vars

\* C30: the messages a step transmits leave in the order of their send()
\* calls (a later call has the greater number), also when the connection
\* opens and the onConnect handler sends.
C30_SendOrderOnWire ==
    [][t' # t
        => \A i, j \in 1..Len(t'.sent) : i < j => t'.sent[i] < t'.sent[j]]_vars

\* C31: at most one reconnect backoff timer is pending in the transport (the
\* keep-alive interval and the debounce timer of each type are single by
\* clearKeepAlive and by the clearTimeout of processMessage).
C31_OneBackoffTimer == PendingBackoffTimers(t) <= 1

\* C32: every change of GameState on a page increments the version and
\* refreshes the snapshot, which then equals the new GameState.
C32_ChangesThroughStore ==
    [][(g'.gameState # g.gameState /\ g'.last # "Reload")
        => /\ g'.version > g.version
           /\ g'.snapshot = <<g'.gameState>>]_vars

(***************************************************************************)
(* One tab in which the pages of two games are opened one after the other. *)
(***************************************************************************)
GamesNext ==
    \/ PageNextOf(LoadMessages, LoadBounds)
    \/ \E a \in 1..Len(SnapshotAges) : Reload(a)
    \/ \E a \in 1..Len(SnapshotAges), id \in GameIds : Navigate(a, id)
    \/ StorageAges

GamesSpec == Init /\ [][GamesNext]_vars

\* C33: a snapshot saved by the page of one game is never loaded as the
\* GameState of the page of another game: the gameId of GameState is the
\* gameId of the page.
C33_SnapshotOfOwnGame ==
    /\ g.stateGameId = g.gameId
    /\ (g.rehydrated /\ g.last = "Reload") => g.mounted[1].gameId = g.gameId

(***************************************************************************)
(* One tab whose sessionStorage item may have been written by something    *)
(* other than this page: a text that is no JSON, or an item whose snapshot *)
(* has a gameStatus this GameState does not know.                          *)
(***************************************************************************)
ForeignItems ==
    { [parses |-> FALSE, version |-> 0, age |-> 1,
       snapshot |-> InitialGameState, gameId |-> "g1"],
      [parses |-> TRUE, version |-> 1, age |-> 1,
       snapshot |-> [InitialGameState EXCEPT !.gameStatus = "WAITING"],
       gameId |-> "g1"] }

ForeignWrite(item) ==
    /\ g.storage # <<item>>
    /\ g' = [GBegin(g, "ForeignWrite", "") EXCEPT !.storage = <<item>>]
    /\ UNCHANGED t

CorruptNext ==
    \/ PageNextOf(LoadMessages, LoadBounds)
    \/ \E a \in 1..Len(SnapshotAges) : Reload(a)
    \/ StorageAges
    \/ \E item \in ForeignItems : ForeignWrite(item)

CorruptSpec == Init /\ [][CorruptNext]_vars

\* the value has the fields of GameState with values of their types
WellFormed(gs) ==
    /\ DOMAIN gs = DOMAIN InitialGameState
    /\ gs.gameStatus \in {"PENDING", "ACTIVE", "FINISHED"}

\* C34: a stored item that is stale, unparsable or holds no well-formed
\* GameState is never installed: GameState is always well-formed, and an
\* unparsable or stale item found on mount leaves the initial GameState.
C34_CorruptTreatedAsAbsent ==
    /\ WellFormed(g.gameState)
    /\ (/\ g.last = "Reload"
        /\ g.mounted # <<>>
        /\ (~g.mounted[1].parses \/ SnapshotAges[g.mounted[1].age] >= MaxCacheAge))
        => (~g.rehydrated /\ g.gameState = InitialGameState)

\* C35: a tick of the stuck-pending interval changes no field of GameState
\* other than gameStatus, opponentConnected and letters.
C35_ForceCheckFrame ==
    [][g'.last = "ForceCheckTick"
        => \A f \in DOMAIN g.gameState \ {"gameStatus", "opponentConnected", "letters"} :
              g'.gameState[f] = g.gameState[f]]_vars

C35_Witness ==
    /\ g.last = "ForceCheckTick"
    /\ g.gameState.gameStatus = "ACTIVE"
    /\ g.gameState.letters = ForcedLetters
    /\ g.gameState.score = 5

(***************************************************************************)
(* The matchmaking page (QueuePage) on the transport.  Its handlers are    *)
(* registered by an effect whose dependencies are [router]: the queueStatus *)
(* they read is the one of the first render.                               *)
(***************************************************************************)
RegisteredQueueStatus == "IDLE"

\* wsService.isConnected()
isConnected(s) == s.connectionState = "CONNECTED"

\* the onConnect handler of QueuePage (login/page.tsx 421-433)
queueOnConnect(s) ==
    IF RegisteredQueueStatus = "JOINING" /\ isConnected(s)
    THEN send(s, NewMessage(s))
    ELSE s

\* onopen (websocket.ts 138-149) with the handlers of QueuePage
onopenQueue(s) ==
    LET s1 == [s EXCEPT !.connectionState = "CONNECTED",
                        !.reconnectAttempts = 0,
                        !.cb = @ \cup {"onConnect"}]
        s2 == queueOnConnect(s1)
    IN  processPendingMessages(setupKeepAlive(s2))

\* the transport step s together with the new state q of QueuePage
QStep(s, name, q) ==
    /\ Bounded(s)
    /\ t' = s
    /\ g' = [GBegin(g, name, "") EXCEPT !.queue = q]

\* the connection effect and its 10 s interval: connect unless connected
QueueConnect ==
    /\ ~isConnected(t)
    /\ Step(connect(Begin(t, "Connect", "u1"), "u1"))

\* joinQueue (login/page.tsx 573-601), called in the status IDLE
JoinQueue ==
    /\ g.queue.queueStatus = "IDLE"
    /\ IF isConnected(t)
       THEN QStep(send(Begin(t, "JoinQueue", ""), NewMessage(t)), "JoinQueue",
                  [g.queue EXCEPT !.queueStatus = "JOINING", !.joinCalled = TRUE])
       ELSE QStep(t, "JoinQueue", [g.queue EXCEPT !.queueStatus = "JOINING"])

WsOpenQueue ==
    /\ t.ws = "CONNECTING"
    /\ LET s == onopenQueue([Begin(t, "WsOpenQueue", "") EXCEPT !.ws = "OPEN"])
       IN  QStep(s, "WsOpenQueue",
                 [g.queue EXCEPT !.joinCalled = @ \/ s.sent # <<>>])

\* onclose with the onDisconnect handler of QueuePage, which sets a 5 s timer
WsCloseQueue(code) ==
    /\ t.ws \in {"CONNECTING", "OPEN"}
    /\ QStep(onclose([Begin(t, "WsCloseQueue", "")
                         EXCEPT !.ws = "CLOSED", !.code = code], code),
             "WsCloseQueue", [g.queue EXCEPT !.lostTimer = TRUE])

\* the 5 s timer of onDisconnect (login/page.tsx 459-463)
QueueLostTimerFire ==
    /\ g.queue.lostTimer
    /\ QStep(t, "QueueLostTimerFire",
             IF isConnected(t)
             THEN [g.queue EXCEPT !.lostTimer = FALSE]
             ELSE [g.queue EXCEPT !.lostTimer = FALSE, !.queueStatus = "ERROR"])

\* the server answers a JOIN_QUEUE it has received: QUEUE_JOINED
QueueJoined ==
    /\ g.queue.joinCalled
    /\ g.queue.queueStatus = "JOINING"
    /\ t.ws = "OPEN"
    /\ QStep(t, "QueueJoined", [g.queue EXCEPT !.queueStatus = "IN_QUEUE"])

QueueNext ==
    \/ QueueConnect
    \/ JoinQueue
    \/ WsOpenQueue
    \/ \E c \in CloseCodes : WsCloseQueue(c)
    \/ QueueLostTimerFire
    \/ QueueJoined
    \/ ReconnectTimerFire
    \/ QueueTimerFire
    \/ ThrottleElapses

\* Timers fire, the page connects when it is not connected, and a socket
\* that connects again and again opens.
QueueSpec ==
    /\ Init /\ [][QueueNext]_vars
    /\ WF_vars(QueueConnect)
    /\ WF_vars(ReconnectTimerFire)
    /\ WF_vars(QueueTimerFire)
    /\ WF_vars(ThrottleElapses)
    /\ WF_vars(QueueLostTimerFire)
    /\ SF_vars(WsOpenQueue)

\* C36: when the user has asked to join the queue and JOIN_QUEUE was not
\* sent because the transport was not connected, JOIN_QUEUE is sent later
\* or the page leaves the status JOINING.
C36_JoinSentAfterConnect ==
    (g.queue.queueStatus = "JOINING" /\ ~g.queue.joinCalled)
        ~> (g.queue.joinCalled \/ g.queue.queueStatus # "JOINING")

\* a backoff timer or the timer of the connection queue is pending, or a
\* socket whose callbacks are still set exists
CallbackPending(s) ==
    \/ PendingBackoffTimers(s) > 0
    \/ s.queueTimer
    \/ s.ws \in {"CONNECTING", "OPEN"}
    \/ s.orphanConnecting > 0
    \/ s.orphanOpen > 0

\* C37: whenever the transport is RECONNECTING or CONNECTING, a backoff
\* timer is pending or a socket with its callbacks exists.
C37_AttemptNeverRests ==
    t.connectionState \in {"RECONNECTING", "CONNECTING"} => CallbackPending(t)

\* DISCONNECTED with no socket and no backoff timer
AtRest(s) ==
    /\ s.connectionState = "DISCONNECTED"
    /\ s.ws = "null"
    /\ s.reconnectTimeout # "pending"

\* C38: the step that follows disconnect(), unless it is a call of
\* connect(), leaves the transport DISCONNECTED with no socket and no
\* backoff timer.
C38_DisconnectIsFinal ==
    [][(t.last = "Disconnect" /\ t'.last # "Connect") => AtRest(t')]_vars

(***************************************************************************)
(* The countdown.  gameState.timeRemaining is the string mm:ss, kept here  *)
(* as the pair <<minutes, seconds>> in g.clock; a message that carries a   *)
(* timeRemaining carries a non-empty one.                                  *)
(***************************************************************************)
StartTime == <<3, 0>>

\* gameState.timeRemaining as the registered handlers read it
RegisteredTime == <<0, 0>>

\* the timeRemaining of the updates handleGameMessage stages for data, each
\* with the priority of its update (lines 873-875, 955, 1021, 1039, 1076,
\* 1110)
timeUpdates(data) ==
    LET time(other) == IfDefined(data, "timeRemaining", other)
        full == IF Defined(data, "timeRemaining")
                THEN << <<cachePriority(data.type), data.timeRemaining>> >>
                ELSE <<>>
        rest ==
            IF \/ Truthy(data, "opponentConnected")
               \/ Truthy(data, "opponentName")
               \/ data.type = "OPPONENT_JOINED"
            THEN << <<"high", time(StartTime)>> >>
            ELSE CASE data.type = "GAME_STARTED" -> << <<"high", time(StartTime)>> >>
                   [] data.type = "GAME_UPDATE" ->
                        << <<"normal", time(RegisteredTime)>> >>
                   [] data.type = "GAME_STATE" /\ Truthy(data, "gameStatus") ->
                        << <<IF /\ data.gameStatus = "ACTIVE"
                                /\ RegisteredGameState.gameStatus = "PENDING"
                             THEN "high" ELSE "normal",
                             time(RegisteredTime)>> >>
                   [] OTHER -> <<>>
    IN  full \o rest

\* stageUpdate for the timeRemaining of the updates
RECURSIVE stageTime(_, _)
stageTime(clock, updates) ==
    IF updates = <<>> THEN clock
    ELSE stageTime(IF Head(updates)[1] = "high"
                   THEN [clock EXCEPT !.timeRemaining = Head(updates)[2]]
                   ELSE [clock EXCEPT !.staged = Append(@, Head(updates)[2])],
                   Tail(updates))

\* applyPendingUpdates for the timeRemaining of the updates
flushTime(clock) ==
    IF clock.staged = <<>> THEN clock
    ELSE [clock EXCEPT !.timeRemaining = clock.staged[Len(clock.staged)],
                       !.staged = <<>>]

\* minutes * 60 + seconds
totalSeconds(time) == time[1] * 60 + time[2]

\* the countdown interval (lines 672-704)
tick(s) ==
    IF totalSeconds(s.clock.timeRemaining) > 0
    THEN LET total == totalSeconds(s.clock.timeRemaining) - 1
         IN  [s EXCEPT !.clock.timeRemaining = <<total \div 60, total % 60>>]
    ELSE countdown(s, TRUE)

TimeBegin(name, msg, carried) ==
    [GBegin(g, name, msg) EXCEPT !.clock.carried = carried]

TimeMessages ==
    { [type |-> "GAME_STARTED", letters |-> Letters, timeRemaining |-> <<0, 3>>],
      [type |-> "GAME_UPDATE", score |-> 5, timeRemaining |-> <<0, 2>>],
      [type |-> "GAME_UPDATE", score |-> 5],
      [type |-> "OPPONENT_RECONNECTED", opponentConnected |-> TRUE] }

TimedMessage(m) ==
    /\ LET s == handleGameMessage(
                    TimeBegin("HandleMessage", m.type, Defined(m, "timeRemaining")), m)
       IN  GStep([s EXCEPT !.clock = stageTime(@, timeUpdates(m))], PlayBounds)

TimedFlushTimerFire ==
    /\ g.flushTimers > 0
    /\ LET s == [TimeBegin("FlushTimerFire", "", FALSE) EXCEPT !.flushTimers = @ - 1]
       IN  GStep([applyPendingUpdates(s) EXCEPT !.clock = flushTime(@)], PlayBounds)

TimedFlushIntervalTick ==
    /\ Len(g.pendingUpdates) > 0
    /\ LET s == TimeBegin("FlushIntervalTick", "", FALSE)
       IN  GStep([applyPendingUpdates(s) EXCEPT !.clock = flushTime(@)], PlayBounds)

TimeTick ==
    /\ g.seen.gameState.gameStatus = "ACTIVE"
    /\ GStep(tick(TimeBegin("TimeTick", "", FALSE)), PlayBounds)

TimeNext ==
    \/ \E m \in TimeMessages : TimedMessage(m)
    \/ TimedFlushTimerFire
    \/ TimedFlushIntervalTick
    \/ TimeTick
    \/ RunEffects(PlayBounds)

TimeSpec == Init /\ [][TimeNext]_vars

\* C39: while the game is ACTIVE, a step that processes a message carrying
\* no timeRemaining leaves the countdown as it was.
C39_TimeOnlyFromMessage ==
    [][(/\ g.gameState.gameStatus = "ACTIVE"
        /\ g'.last = "HandleMessage"
        /\ ~g'.clock.carried)
            => g'.clock.timeRemaining = g.clock.timeRemaining]_vars

(***************************************************************************)
(* A game in which the server rejects the word the player submits.  CAT is *)
(* the only word the player types and no word is accepted, so the score    *)
(* before the submission is 0.                                             *)
(***************************************************************************)
RejectMessages ==
    { [type |-> "GAME_STARTED", letters |-> PlayLetters],
      [type |-> "GAME_UPDATE", opponentScore |-> 7],
      [type |-> "WORD_SUBMISSION_RESULT", success |-> FALSE, word |-> Cat] }

RejectNext ==
    \/ PageNextOf(RejectMessages, PlayBounds)
    \/ \E i \in 1..Len(PlayLetters) : LetterClick(PlayLetters[i])
    \/ Delete
    \/ Enter

RejectSpec == Init /\ [][RejectNext]_vars

\* the server has rejected the submitted word and no update waits
Rejected ==
    /\ g.answered # <<>>
    /\ ~g.answered[1].success
    /\ g.pendingUpdates = <<>>
    /\ g.flushTimers = 0

\* C40: when the server has rejected the submitted word and every pending
\* update is flushed, the word is not in foundWords and the score is the
\* one before the submission.
C40_RejectionRevertsOptimism ==
    Rejected => /\ ~Includes(g.gameState.foundWords, g.answered[1].word)
                /\ g.gameState.score = 0

====
